---- MODULE Spec2Model ----
(***************************************************************************)
(* Model of the LTDC framebuffer compositor and blitter of the Flappy Bird *)
(* firmware (src/src/lcd.rs, src/src/display.rs, src/src/draw.rs).         *)
(*                                                                         *)
(* The software side is one thread of control; the LTDC scan-out hardware  *)
(* is a second actor that copies the shadow (staged) layer registers into  *)
(* the active registers at a vertical blank when SRCR.VBR is set, or at    *)
(* once when SRCR.IMR is written.                                          *)
(***************************************************************************)
EXTENDS Integers, Sequences, FiniteSets, TLC

VARIABLES
    build,      \* cargo features / profile the firmware was built with
    L1_FRONT,   \* lcd.rs static mut L1_FRONT
    ltdc,       \* LTDC shadow registers, as last written by software
    active,     \* LTDC active registers, as used by the scan-out path
    DISPLAY,    \* display.rs static mut DISPLAY: "None" or "Some"
    fb,         \* SDRAM words written so far: address -> 32-bit word
    halted,     \* TRUE once a panic has stopped the program (panic_halt)
    draws,      \* number of drawing calls made so far
    last,       \* the last step taken, with the facts it observed
    boot,       \* main.rs init(): the statement reached and those executed
    tap         \* the latest reading of the input device

vars ==
    <<build, L1_FRONT, ltdc, active, DISPLAY, fb, halted, draws, last, boot, tap>>

(***************************************************************************)
(* Integer helpers.                                                        *)
(***************************************************************************)
U16 == 2^16

Min(a, b) == IF a <= b THEN a ELSE b

\* u32::saturating_sub
saturating_sub(a, b) == IF a >= b THEN a - b ELSE 0

\* `v as u16`
as_u8(v) == v % 2^8
as_u16(v) == v % U16

(***************************************************************************)
(* Program constants.                                                      *)
(***************************************************************************)
LCD_WIDTH == 240
LCD_HEIGHT == 320
GAME_WIDTH == 320
GAME_HEIGHT == 240
DISPLAY_WIDTH == 240
DISPLAY_HEIGHT == 320

HSYNC == 10
HBP == 20
HFP == 10
VSYNC == 2
VBP == 2
VFP == 4

\* Addresses and sizes are kept in units of one halfword (2 bytes): the
\* model checker's integers are 32-bit signed and cannot hold the byte
\* address 0xD000_0000.  Every buffer base and size is even, so nothing is
\* lost; a u32 pixel covers two consecutive units.
Units(bytes) == bytes \div 2

\* 0xD000_0000 bytes = 13 * 2^28 bytes = 13 * 2^27 halfwords
SDRAM_BASE == 13 * 2^27
LAYER1_BASE == SDRAM_BASE
\* 2 (RGB565) with the feature l1-16bpp, else 4 (ARGB8888)
LAYER1_BPP == IF build.l1_16bpp THEN 2 ELSE 4
LAYER1_SIZE == Units(LCD_WIDTH * LCD_HEIGHT * LAYER1_BPP)
LAYER2_BASE_at_layer1 == LAYER1_BASE
LAYER2_BASE == LAYER1_BASE + LAYER1_SIZE
LAYER2_SIDE == 64
LAYER2_W == LAYER2_SIDE
LAYER2_H == LAYER2_SIDE
LAYER2_BPP == 4
LAYER2_SIZE == Units(LAYER2_W * LAYER2_H * LAYER2_BPP)
LAYER1_BASE_B == LAYER2_BASE + LAYER2_SIZE

\* address units covered by one u32 framebuffer element
WORD == Units(4)

(***************************************************************************)
(* Frame store contents.  A 32-bit ARGB8888 word is kept as the tuple      *)
(* <<a, r, g, b>> of its four bytes, most significant first.               *)
(***************************************************************************)
\* draw.rs fill_checkerboard_to: the pixel written at (row, col)
fill_checkerboard_pix(row, col) ==
    LET cel_count == (LCD_WIDTH \div 32) + (LCD_HEIGHT \div 32)
        cel == (row \div 32) + (col \div 32)
        a0 == IF cel % 2 # 0 THEN 0 ELSE 255
        r0 == ((row * 255) \div LCD_HEIGHT) % 256
        g0 == ((col * 255) \div LCD_WIDTH) % 256
        b0 == IF cel % 4 = 0 THEN 0
              ELSE ((255 * (cel_count - cel - 1)) \div cel_count) % 256
        grid == (row % 32 = 0) \/ (col % 32 = 0)
        r == IF grid THEN (IF a0 # 0 THEN 255 ELSE 0) ELSE r0
        g == IF grid THEN r ELSE g0
        b == IF grid THEN r ELSE b0
        a == IF grid THEN 255 ELSE a0
    IN  <<a, r, g, b>>

\* the word at address addr before any drawing call: both Layer-1
\* buffers hold the checkerboard (draw.rs layer1_checkerboard), the rest
\* of the frame store is cleared
InitWord(addr) ==
    LET base == IF addr >= LAYER1_BASE_B THEN LAYER1_BASE_B ELSE LAYER1_BASE
        i == (addr - base) \div WORD
    IN  IF addr >= LAYER2_BASE /\ addr < LAYER1_BASE_B THEN <<0, 0, 0, 0>>
        ELSE IF i >= LCD_WIDTH * LCD_HEIGHT THEN <<0, 0, 0, 0>>
        ELSE fill_checkerboard_pix(i \div LCD_WIDTH, i % LCD_WIDTH)

\* read of the word at address addr in frame store f
ReadWord(f, addr) == IF addr \in DOMAIN f THEN f[addr] ELSE InitWord(addr)

\* frame store f after the writes w (address -> word)
StoreWords(f, w) ==
    [a \in (DOMAIN f) \cup (DOMAIN w) |-> IF a \in DOMAIN w THEN w[a] ELSE f[a]]

\* the Layer-1 buffer (by base address) that holds address addr
BufferOf(addr) ==
    IF addr >= LAYER1_BASE /\ addr < LAYER1_BASE + LAYER1_SIZE THEN LAYER1_BASE
    ELSE IF addr >= LAYER1_BASE_B /\ addr < LAYER1_BASE_B + LAYER1_SIZE
         THEN LAYER1_BASE_B
    ELSE IF addr >= LAYER2_BASE /\ addr < LAYER2_BASE + LAYER2_SIZE
         THEN LAYER2_BASE
    ELSE 0

(***************************************************************************)
(* LTDC registers (lcd.rs).                                                *)
(***************************************************************************)
\* the per-layer registers that are shadowed: software writes the shadow
\* copy, the scan-out path uses the active copy
ShadowedRegs ==
    {"l1_whpcr", "l1_wvpcr", "l1_cfbar", "l1_cacr",
     "l2_whpcr", "l2_wvpcr", "l2_cfbar", "l2_cacr"}

\* a shadow reload: every shadowed register is copied to its active copy
Reload(r) == [f \in ShadowedRegs |-> r[f]]

\* LcdDriver::new, AWCR: the last active column (line) for the given sync
\* width, back porch and active size
active_end_no_porch(sync, back_porch, size) == sync + size - 1
active_end(sync, back_porch, size) == sync + back_porch + size - 1

\* LcdDriver::new: the register file after the configuration writes; the
\* static L1_FRONT is not touched
LcdDriver_new ==
    [sscr |-> <<as_u16(HSYNC - 1), as_u16(VSYNC - 1)>>,
     bpcr |-> <<as_u16(HSYNC + HBP - 1), as_u16(VSYNC + VBP - 1)>>,
     awcr |-> <<as_u16(active_end(HSYNC, HBP, LCD_WIDTH)),
                as_u16(active_end(VSYNC, VBP, LCD_HEIGHT))>>,
     twcr |-> <<as_u16(HSYNC + HBP + LCD_WIDTH + HFP - 1),
                as_u16(VSYNC + VBP + LCD_HEIGHT + VFP - 1)>>,
     l1_whpcr |-> <<as_u16(HSYNC + HBP + 0), as_u16(HSYNC + HBP + LCD_WIDTH - 1)>>,
     l1_wvpcr |-> <<as_u16(VSYNC + VBP + 0), as_u16(VSYNC + VBP + LCD_HEIGHT - 1)>>,
     l1_cfbar |-> LAYER1_BASE,
     l1_cacr |-> 255,
     l2_whpcr |-> <<as_u16(HSYNC + HBP + 0), as_u16(HSYNC + HBP + LAYER2_W - 1)>>,
     l2_wvpcr |-> <<as_u16(VSYNC + VBP + 0), as_u16(VSYNC + VBP + LAYER2_H - 1)>>,
     l2_cfbar |-> LAYER2_BASE,
     l2_cacr |-> 255,
     srcr_vbr |-> TRUE,
     ltdcen |-> TRUE]

\* display.rs get_display: the first call constructs Display, and with it a
\* second LcdDriver, which rewrites the LTDC configuration
get_display(r) == IF DISPLAY = "None" THEN LcdDriver_new ELSE r

\* LcdDriver::layer1_back_addr as a function of the front tracker
back_addr_wrong(front) == LAYER1_BASE_B
back_addr_of(front) == IF front = LAYER1_BASE THEN LAYER1_BASE_B ELSE LAYER1_BASE

\* LcdDriver::layer1_back_addr
layer1_back_addr == back_addr_of(L1_FRONT)

\* swap_layer1_buffers: the value stored in the tracker L1_FRONT
tracker_stale(new_front) == L1_FRONT
tracker_update(new_front) == new_front

\* set_layer2_position: the clamp of the requested origin
clamp_x_none(x) == x
clamp_x(x) == Min(x, saturating_sub(LCD_WIDTH, LAYER2_W))
clamp_y(y) == Min(y, saturating_sub(LCD_HEIGHT, LAYER2_H))

(***************************************************************************)
(* The record of the last step: what was called, how it ended, what it     *)
(* wrote, and the bookkeeping it found when it started.  pending is the    *)
(* set of addresses swap_layer1_buffers has requested since the last       *)
(* vertical blank.                                                         *)
(***************************************************************************)
NoWrites == {}

Step(op, args, status, target, touched, pending) ==
    [op |-> op, args |-> args, status |-> status,
     target |-> target, touched |-> touched,
     front_before |-> L1_FRONT,
     back_before |-> layer1_back_addr,
     latched_before |-> active.l1_cfbar,
     requests |-> last.pending,
     pending |-> pending,
     prev |-> [op |-> last.op, front_before |-> last.front_before,
               back_before |-> last.back_before]]

(***************************************************************************)
(* Layer compositor (lcd.rs).                                              *)
(***************************************************************************)
\* requested overlay origins: u32 values, up to the largest integer the
\* model checker can hold
Positions ==
    {<<0, 0>>, <<100, 300>>, <<176, 256>>, <<177, 257>>, <<2147483647, 2147483647>>}
\* requested overlay alpha values
Alphas == {128, 255}

\* LcdDriver::swap_layer1_buffers (feature "overlay")
swap_layer1_buffers ==
    /\ ~halted
    /\ LET new_front == layer1_back_addr
       IN  /\ ltdc' = [ltdc EXCEPT !.l1_cfbar = new_front, !.srcr_vbr = TRUE]
           /\ L1_FRONT' = tracker_update(new_front)
           /\ last' = Step("swap_layer1_buffers", <<>>, "ok", 0, NoWrites,
                           last.pending \cup {new_front})
    /\ UNCHANGED <<build, boot, tap, active, DISPLAY, fb, halted, draws>>

\* LcdDriver::set_layer2_position
set_layer2_position(x, y) ==
    /\ ~halted
    /\ LET cx == clamp_x(x)
           cy == clamp_y(y)
           h_start == HSYNC + HBP + cx
           h_stop == h_start + LAYER2_W - 1
           v_start == VSYNC + VBP + cy
           v_stop == v_start + LAYER2_H - 1
           staged == [ltdc EXCEPT !.l2_whpcr = <<as_u16(h_start), as_u16(h_stop)>>,
                                  !.l2_wvpcr = <<as_u16(v_start), as_u16(v_stop)>>]
       IN  IF build.l2_immediate
           THEN \* SRCR.IMR: every shadow register is reloaded at once
                /\ ltdc' = staged
                /\ active' = Reload(staged)
           ELSE \* SRCR.VBR: reload at the next vertical blank
                /\ ltdc' = [staged EXCEPT !.srcr_vbr = TRUE]
                /\ active' = active
    /\ last' = Step("set_layer2_position", <<x, y>>, "ok", 0, NoWrites, last.pending)
    /\ UNCHANGED <<build, boot, tap, L1_FRONT, DISPLAY, fb, halted, draws>>

\* LcdDriver::set_layer2_alpha
set_layer2_alpha(alpha) ==
    /\ ~halted
    /\ ltdc' = [ltdc EXCEPT !.l2_cacr = alpha, !.srcr_vbr = TRUE]
    /\ last' = Step("set_layer2_alpha", <<alpha>>, "ok", 0, NoWrites, last.pending)
    /\ UNCHANGED <<build, boot, tap, L1_FRONT, active, DISPLAY, fb, halted, draws>>

\* the scan-out path reaches a vertical blank: a requested reload is done
\* and the request bit is cleared by hardware
VBlank ==
    /\ active' = IF ltdc.srcr_vbr THEN Reload(ltdc) ELSE active
    /\ ltdc' = [ltdc EXCEPT !.srcr_vbr = FALSE]
    /\ last' = Step("vblank", <<>>, "ok", 0, NoWrites, {})
    /\ UNCHANGED <<build, boot, tap, L1_FRONT, DISPLAY, fb, halted, draws>>

(***************************************************************************)
(* Blitter (display.rs).  A drawing routine is an operator that gives how  *)
(* the call ends and the words it wrote:                                   *)
(*   status "ok"      the routine ran to its end,                          *)
(*   status "return"  it returned early without drawing,                   *)
(*   status "panic"   it panicked (expect on a failed conversion, or an    *)
(*                    arithmetic overflow in a build with overflow checks);*)
(*                    panic_halt then stops the program.                   *)
(***************************************************************************)
Outcome(status, writes) == [status |-> status, writes |-> writes]

\* fits(v) is TRUE when `v.try_into()` to u16 succeeds
fits_u16(v) == v >= 0 /\ v < U16

\* 5-6-5 to 8-8-8-8 conversion, as written out in fill_rect
rgb565_shifted(c) ==
    <<255, ((c \div 2^11) % 32) * 8, ((c \div 2^5) % 64) * 4, (c % 32) * 8>>
rgb565_to_argb8888(c) ==
    LET r == (c \div 2^11) % 32
        g == (c \div 2^5) % 64
        b == c % 32
    IN  <<255, (r * 255) \div 31, (g * 255) \div 63, (b * 255) \div 31>>

\* the same conversion as draw_image_to_framebuffer writes it out for the
\* source pixel rgb565
image_rgb565_to_argb8888(rgb565) ==
    LET r == (rgb565 \div 2^11) % 32
        g == (rgb565 \div 2^5) % 64
        b == rgb565 % 32
        r8 == (r * 255) \div 31
        g8 == (g * 255) \div 63
        b8 == (b * 255) \div 31
    IN  <<255, r8, g8, b8>>

\* the same conversion as write_char writes it out for pixel_color
char_rgb565_to_argb8888(pixel_color) ==
    LET r == (pixel_color \div 2^11) % 32
        g == (pixel_color \div 2^5) % 64
        b_val == pixel_color % 32
        r8 == (r * 255) \div 31
        g8 == (g * 255) \div 63
        b8 == (b_val * 255) \div 31
    IN  <<255, r8, g8, b8>>

\* the fixed GameSpace -> PanelSpace remap and the framebuffer index
lcd_x_of(game_x, game_y) == game_y
lcd_y_of(game_x, game_y) == GAME_WIDTH - 1 - game_x
fb_index(game_x, game_y) ==
    lcd_y_of(game_x, game_y) * LCD_WIDTH + lcd_x_of(game_x, game_y)

\* the address of element i of the u32 slice at base
ElemAddr(base, i) == base + WORD * i

\* the logical pixel <<game_x, game_y>> whose word is at address a of the
\* slice at base (the remap is one-to-one)
game_xy_of(base, a) ==
    LET i == (a - base) \div WORD
    IN  <<GAME_WIDTH - 1 - (i \div LCD_WIDTH), i % LCD_WIDTH>>

\* the buffer every Display drawing routine takes its slice from
blit_base == LAYER1_BASE

\* `a + b - 1` on u16 operands: overflows when the sum does not fit or when
\* the sum is 0
edge_overflows(a, b) == (a + b >= U16) \/ (a + b = 0)
edge_u16(a, b) == (a + b - 1) % U16

\* fill_rect: the clipped width (or height) of the rectangle
clip(x, w, limit) == IF edge_u16(x, w) >= limit THEN limit - x ELSE w

\* the values of `for i in 0..n`
range_inclusive(n) == 0..n
range(n) == 0..(n - 1)

\* Display::fill_rect(x, w, y, h, color), all u16
fill_rect(x, w, y, h, color) ==
    IF x >= GAME_WIDTH \/ y >= GAME_HEIGHT
    THEN Outcome("return", << >>)
    ELSE IF build.overflow_checks
            /\ (edge_overflows(x, w) \/ edge_overflows(y, h))
    THEN Outcome("panic", << >>)
    ELSE LET w1 == clip(x, w, GAME_WIDTH)
             h1 == clip(y, h, GAME_HEIGHT)
             argb8888 == rgb565_to_argb8888(color)
             \* loop iterations that pass both bounds checks
             cols == {col \in range(w1) :
                        /\ x + col < GAME_WIDTH
                        /\ lcd_y_of(x + col, y) < LCD_HEIGHT}
             rows == {row \in range(h1) :
                        /\ y + row < GAME_HEIGHT
                        /\ lcd_x_of(x, y + row) < LCD_WIDTH}
             addrs == {ElemAddr(blit_base, fb_index(x + col, y + row)) :
                         col \in cols, row \in rows}
         IN  Outcome("ok", [a \in addrs |-> argb8888])

\* Display::draw_rect_angle(x: Coord, w: u32, y: Coord, h: u32, color)
Display_draw_rect_angle(x, w, y, h, color) ==
    IF ~(fits_u16(x) /\ fits_u16(y) /\ fits_u16(w) /\ fits_u16(h))
    THEN Outcome("panic", << >>)
    ELSE fill_rect(x, w, y, h, color)

\* the image-to-destination index mapping of draw_image_to_framebuffer for
\* destination (row, col) of a w x h target: <<img_row, img_col>> after the
\* rotation and the flips, computed in the integers (a negative component
\* is a u32 subtraction that overflowed)
img_row_col_cw(rotation, flip_h, flip_v, w, h, row, col) == <<w - 1 - col, row>>
img_row_col(rotation, flip_h, flip_v, w, h, row, col) ==
    LET rot == CASE rotation = "None" -> <<row, col>>
                 [] rotation = "Clockwise90" -> <<w - 1 - col, row>>
                 [] rotation = "CounterClockwise90" -> <<col, h - 1 - row>>
                 [] rotation = "Rotate180" -> <<h - 1 - row, w - 1 - col>>
        c == IF flip_h THEN w - 1 - rot[2] ELSE rot[2]
        r == IF flip_v THEN h - 1 - rot[1] ELSE rot[1]
    IN  <<r, c>>

\* Display::draw_image_to_framebuffer(x, y, w, h, image_data, transform),
\* x, y, w, h u32; image_data a sequence of u16 (index 0 is element 1).
\* The loop runs row by row; in a build with overflow checks it stops with
\* a panic at the first iteration whose flip subtraction overflows, and the
\* writes made before stay.  In a wrapping build the overflowed u32 index
\* equals the integer index modulo 2^32: it is used when the integer index
\* is not negative and lies past the slice end otherwise.
draw_image_to_framebuffer(x, y, w, h, image_data, transform) ==
    LET cols == {col \in range(w) :
                   /\ x + col < GAME_WIDTH
                   /\ lcd_y_of(x + col, y) < LCD_HEIGHT}
        rows == {row \in range(h) :
                   /\ y + row < GAME_HEIGHT
                   /\ lcd_x_of(x, y + row) < LCD_WIDTH}
        rc(row, col) == img_row_col(transform.rotation, transform.flip_h,
                                    transform.flip_v, w, h, row, col)
        overflows(row, col) == rc(row, col)[1] < 0 \/ rc(row, col)[2] < 0
        img_idx(row, col) == rc(row, col)[1] * w + rc(row, col)[2]
        bad == {p \in rows \X cols : overflows(p[1], p[2])}
        before(p, q) == p[1] < q[1] \/ (p[1] = q[1] /\ p[2] < q[2])
        panics == build.overflow_checks /\ bad # {}
        done == IF panics
                THEN {p \in rows \X cols : \A q \in bad : before(p, q)}
                ELSE rows \X cols
        drawn == {p \in done :
                    /\ img_idx(p[1], p[2]) >= 0
                    /\ img_idx(p[1], p[2]) < Len(image_data)}
        addr(p) == ElemAddr(blit_base, fb_index(x + p[2], y + p[1]))
        pix(a) == LET g == game_xy_of(blit_base, a)
                  IN  image_rgb565_to_argb8888(
                          image_data[img_idx(g[2] - y, g[1] - x) + 1])
    IN  Outcome(IF panics THEN "panic" ELSE "ok",
                [a \in {addr(p) : p \in drawn} |-> pix(a)])

\* Display::draw_image_transformed(x: Coord, w: u32, y: Coord, h: u32,
\* image_data, transform)
Display_draw_image_transformed(x, w, y, h, image_data, transform) ==
    IF ~(fits_u16(x) /\ fits_u16(y) /\ fits_u16(w) /\ fits_u16(h))
    THEN Outcome("panic", << >>)
    ELSE IF x >= DISPLAY_WIDTH \/ y >= DISPLAY_HEIGHT
    THEN Outcome("return", << >>)
    ELSE IF build.overflow_checks
            /\ (edge_overflows(x, w) \/ edge_overflows(y, h))
    THEN Outcome("panic", << >>)
    ELSE draw_image_to_framebuffer(x, y, clip(x, w, DISPLAY_WIDTH),
                                   clip(y, h, DISPLAY_HEIGHT),
                                   image_data, transform)

\* assets::fonts::Font16x26, the font write_string uses
FONT_16X26_width == 16
FONT_16X26_height == 26
\* number of u16 rows in the font table: the glyphs of 32..=126
FONT_16X26_len == (126 - 32 + 1) * FONT_16X26_height
\* row row_index of the font table; the space glyph is blank
FONT_16X26_data(row_index) ==
    IF row_index < FONT_16X26_height THEN 0
    ELSE (row_index * 2731 + 21845) % U16

\* Display::write_char(x, y, ch, FONT_16X26, color, bgcolor), x, y u16 and
\* ch u8.  `ch - 32` overflows for ch < 32; in a wrapping build it gives
\* ch + 224.
write_char(x, y, ch, color, bgcolor) ==
    IF build.overflow_checks /\ ch < 32
    THEN Outcome("panic", << >>)
    ELSE
    LET char_index == (ch - 32) % 2^8
        b(i) == LET row_index == char_index * FONT_16X26_height + i
                IN  IF ch >= 32 /\ ch <= 126 /\ row_index < FONT_16X26_len
                    THEN FONT_16X26_data(row_index)
                    ELSE 65535
        cells == {p \in range(FONT_16X26_height) \X range(FONT_16X26_width) :
                    /\ x + p[2] < GAME_WIDTH
                    /\ y + p[1] < GAME_HEIGHT
                    /\ lcd_x_of(x + p[2], y + p[1]) < LCD_WIDTH
                    /\ lcd_y_of(x + p[2], y + p[1]) < LCD_HEIGHT}
        addr(p) == ElemAddr(blit_base, fb_index(x + p[2], y + p[1]))
        pix(a) == LET g == game_xy_of(blit_base, a)
                      i == g[2] - y
                      j == g[1] - x
                      pixel_color == IF (b(i) \div 2^j) % 2 = 1
                                     THEN color ELSE bgcolor
                  IN  char_rgb565_to_argb8888(pixel_color)
    IN  Outcome("ok", [a \in {addr(p) : p \in cells} |-> pix(a)])

\* write_string: a space that is the first character after a wrap is
\* skipped
skips_every_space(wraps, ch) == ch = 32
skips_space(wraps, ch) == wraps /\ ch = 32

\* one iteration of the loop of write_string, for character k: the pen it
\* found, whether it wrapped, stopped the loop, or called write_char, and
\* the pen it left
Iteration(k, ch, x_in, y_in, wrapped, stopped, drawn, x_out, y_out) ==
    [k |-> k, ch |-> ch, x_in |-> x_in, y_in |-> y_in, wrapped |-> wrapped,
     stopped |-> stopped, drawn |-> drawn, x_out |-> x_out, y_out |-> y_out]

\* the result of write_string: as Outcome, with the iterations it completed
TextOutcome(status, acc) ==
    [status |-> status, writes |-> acc.writes, steps |-> acc.steps]

\* the loop of Display::write_string from character k of text on, with the
\* pen at (x, y) and acc the words written and the iterations completed so
\* far.  text is the sequence of the string's character codes.
RECURSIVE write_string_loop(_, _, _, _, _, _, _)
write_string_loop(text, k, x, y, color, bgcolor, acc) ==
    IF k > Len(text) THEN TextOutcome("ok", acc)
    ELSE
    LET ch == text[k]
        wraps == (x + FONT_16X26_width) % U16 >= GAME_WIDTH
        y1 == (y + FONT_16X26_height) % U16
        ovf == build.overflow_checks
               /\ \/ x + FONT_16X26_width >= U16
                  \/ wraps /\ y + FONT_16X26_height >= U16
                  \/ wraps /\ y1 + FONT_16X26_height >= U16
        it(stopped, drawn, x_out, y_out) ==
            Iteration(k, ch, x, y, wraps, stopped, drawn, x_out, y_out)
    IN  IF ovf THEN TextOutcome("panic", acc)
        ELSE IF wraps /\ (y1 + FONT_16X26_height) % U16 >= GAME_HEIGHT
        THEN TextOutcome("ok", [acc EXCEPT !.steps =
                                   Append(@, it(TRUE, FALSE, 0, y1))])
        ELSE IF skips_space(wraps, ch)
        THEN write_string_loop(text, k + 1, 0, y1, color, bgcolor,
                               [acc EXCEPT !.steps =
                                   Append(@, it(FALSE, FALSE, 0, y1))])
        ELSE LET px == IF wraps THEN 0 ELSE x
                 py == IF wraps THEN y1 ELSE y
                 res == write_char(px, py, ch % 2^8, color, bgcolor)
                 x2 == (px + FONT_16X26_width) % U16
                 acc2 == [writes |-> StoreWords(acc.writes, res.writes),
                          steps |-> Append(acc.steps, it(FALSE, TRUE, x2, py))]
             IN  IF res.status = "panic" THEN TextOutcome("panic", acc)
                 ELSE IF build.overflow_checks /\ px + FONT_16X26_width >= U16
                 THEN TextOutcome("panic", [acc EXCEPT !.writes = acc2.writes])
                 ELSE write_string_loop(text, k + 1, x2, py, color, bgcolor, acc2)

\* Display::write_string(x: Coord, y: Coord, c_str, color, bgcolor)
Display_write_string(x, y, text, color, bgcolor) ==
    IF ~(fits_u16(x) /\ fits_u16(y))
    THEN [status |-> "panic", writes |-> << >>, steps |-> << >>]
    ELSE write_string_loop(text, 1, x, y, color, bgcolor,
                           [writes |-> << >>, steps |-> << >>])

\* a drawing call through the module-level wrappers: get_display() first,
\* then the routine; a panic halts the program
DrawingCall(op, args, res) ==
    /\ ~halted
    /\ ltdc' = get_display(ltdc)
    /\ DISPLAY' = "Some"
    /\ fb' = StoreWords(fb, res.writes)
    /\ halted' = (res.status = "panic")
    /\ draws' = draws + 1
    /\ last' = Step(op, args, res.status, blit_base, DOMAIN res.writes,
                    last.pending)
    /\ UNCHANGED <<build, boot, tap, L1_FRONT, active>>

\* display.rs draw_rect_angle / draw_rect_angle_rust
draw_rect_angle(x, w, y, h, color) ==
    DrawingCall("draw_rect_angle", <<x, w, y, h, color>>,
                Display_draw_rect_angle(x, w, y, h, color))

\* display.rs draw_image_transformed_rust
draw_image_transformed_rust(x, w, y, h, image_data, transform) ==
    DrawingCall("draw_image_transformed", <<x, w, y, h, image_data, transform>>,
                Display_draw_image_transformed(x, w, y, h, image_data, transform))

\* display.rs write_string / write_string_rust
write_string(x, y, text, color, bgcolor) ==
    DrawingCall("write_string", <<x, y, text, color, bgcolor>>,
                Display_write_string(x, y, text, color, bgcolor))

\* display.rs init / init_rust: get_display() and Display::init, whose SPI
\* command writes are stubs
display_init ==
    /\ ~halted
    /\ ltdc' = get_display(ltdc)
    /\ DISPLAY' = "Some"
    /\ last' = Step("display_init", <<>>, "ok", 0, NoWrites, last.pending)
    /\ UNCHANGED <<build, boot, tap, L1_FRONT, active, fb, halted, draws>>

(***************************************************************************)
(* FPS overlay (draw.rs, feature "overlay").                               *)
(***************************************************************************)
\* draw_rect_buf on the u32 slice at base
draw_rect_buf(base, x0, y0, w0, h0, color) ==
    LET x == Min(x0, LCD_WIDTH)
        y == Min(y0, LCD_HEIGHT)
        w == Min(w0, saturating_sub(LCD_WIDTH, x))
        h == Min(h0, saturating_sub(LCD_HEIGHT, y))
    IN  IF w = 0 \/ h = 0 THEN << >>
        ELSE [a \in {ElemAddr(base, (y + row) * LCD_WIDTH + x + col) :
                       row \in range(h), col \in range(w)} |-> color]

draw_seg_h_buf(base, x, y, len, thick, color) ==
    draw_rect_buf(base, x, y, len, thick, color)
draw_seg_v_buf(base, x, y, len, thick, color) ==
    draw_rect_buf(base, x, y, thick, len, color)

\* draw_digit_buf: the segments A B C D E F G lit for each digit
segment_mask(digit) ==
    CASE digit = 0 -> {"A", "B", "C", "D", "E", "F"}
      [] digit = 1 -> {"B", "C"}
      [] digit = 2 -> {"A", "B", "D", "E", "G"}
      [] digit = 3 -> {"A", "B", "C", "D", "G"}
      [] digit = 4 -> {"B", "C", "F", "G"}
      [] digit = 5 -> {"A", "C", "D", "F", "G"}
      [] digit = 6 -> {"A", "C", "D", "E", "F", "G"}
      [] digit = 7 -> {"A", "B", "C"}
      [] digit = 8 -> {"A", "B", "C", "D", "E", "F", "G"}
      [] digit = 9 -> {"A", "B", "C", "D", "F", "G"}
      [] OTHER -> {}

\* draw_digit_buf: 7-segment digit at (x, y), scaled by s.  The segments
\* all carry one colour, so the order they are drawn in does not show.
draw_digit_buf(base, x, y, digit, s, color) ==
    LET t == s
        lh == 4 * s
        lw == 4 * s
        seg(name) ==
            CASE name = "A" -> draw_seg_h_buf(base, x + s, y, lw, t, color)
              [] name = "B" -> draw_seg_v_buf(base, x + 5 * s, y + s, lh, t, color)
              [] name = "C" -> draw_seg_v_buf(base, x + 5 * s, y + 5 * s, lh, t, color)
              [] name = "D" -> draw_seg_h_buf(base, x + s, y + 9 * s, lw, t, color)
              [] name = "E" -> draw_seg_v_buf(base, x, y + 5 * s, lh, t, color)
              [] name = "F" -> draw_seg_v_buf(base, x, y + s, lh, t, color)
              [] name = "G" -> draw_seg_h_buf(base, x + s, y + 4 * s, lw, t, color)
        lit == segment_mask(digit)
        addrs == UNION {DOMAIN seg(n) : n \in lit}
    IN  [a \in addrs |-> color]

\* draw_fps_overlay: the words written into the slice at back_addr
fps_overlay_writes(back_addr, fps) ==
    LET s == 2
        x0 == 4
        y0 == 4
        box_w == 6 * s * 3 + s * 4
        box_h == 10 * s + s * 2
        box == draw_rect_buf(back_addr, x0, y0, box_w, box_h, <<192, 0, 0, 0>>)
        v == Min(fps, 999)
        d2 == v \div 100
        d1 == (v \div 10) % 10
        d0 == v % 10
        white == <<255, 255, 255, 255>>
        xa == x0 + s
        xb == xa + 6 * s + s
        xc == xb + 6 * s + s
        w2 == IF v >= 100 THEN draw_digit_buf(back_addr, xa, y0 + s, d2, s, white)
              ELSE << >>
        w1 == IF v >= 10 THEN draw_digit_buf(back_addr, xb, y0 + s, d1, s, white)
              ELSE << >>
        w0 == draw_digit_buf(back_addr, xc, y0 + s, d0, s, white)
    IN  StoreWords(StoreWords(StoreWords(box, w2), w1), w0)

\* draw_fps_overlay(fps): draw into the back buffer, then
\* swap_layer1_buffers
draw_fps_overlay(fps) ==
    /\ ~halted
    /\ LET back_addr == layer1_back_addr
           w == fps_overlay_writes(back_addr, fps)
           new_front == layer1_back_addr
       IN  /\ fb' = StoreWords(fb, w)
           /\ ltdc' = [ltdc EXCEPT !.l1_cfbar = new_front, !.srcr_vbr = TRUE]
           /\ L1_FRONT' = tracker_update(new_front)
           /\ last' = Step("draw_fps_overlay", <<fps>>, "ok", back_addr, DOMAIN w,
                           last.pending \cup {new_front})
    /\ draws' = draws + 1
    /\ UNCHANGED <<build, boot, tap, active, DISPLAY, halted>>

(***************************************************************************)
(* Specification of the compositor.                                        *)
(***************************************************************************)
\* the state in which main.rs init() returns: the frame store is filled,
\* LcdDriver::new() has configured and enabled the LTDC, the delays that
\* follow it span several frames, so that configuration has been latched,
\* and the closing set_layer2_alpha(0xFF) has requested another reload
\* main.rs init() has returned: no statement is left to execute
Booted == [pc |-> "done", executed |-> <<>>, mpu_init_attempts |-> 0,
           bus |-> "idle", mpu |-> "unknown", reg |-> 0]

\* no reading has been taken from the input device yet
NoReading == [op |-> "none"]

Init ==
    /\ build \in [l2_immediate : BOOLEAN, overflow_checks : BOOLEAN,
                   l1_16bpp : BOOLEAN]
    /\ boot = Booted
    /\ tap = NoReading
    /\ L1_FRONT = LAYER1_BASE
    /\ ltdc = LcdDriver_new
    /\ active = Reload(LcdDriver_new)
    /\ DISPLAY = "None"
    /\ fb = << >>
    /\ halted = FALSE
    /\ draws = 0
    /\ last = [op |-> "init", args |-> <<>>, status |-> "ok",
               target |-> 0, touched |-> NoWrites,
               front_before |-> LAYER1_BASE,
               back_before |-> LAYER1_BASE_B,
               latched_before |-> LAYER1_BASE,
               requests |-> {},
               pending |-> {},
               prev |-> [op |-> "init", front_before |-> LAYER1_BASE,
                         back_before |-> LAYER1_BASE_B]]

Next ==
    \/ swap_layer1_buffers
    \/ \E p \in Positions : set_layer2_position(p[1], p[2])
    \/ \E a \in Alphas : set_layer2_alpha(a)
    \/ display_init
    \/ VBlank

Spec == Init /\ [][Next]_vars

(***************************************************************************)
(* Specification of presentation: buffer swaps and vertical blanks         *)
(* interleaved with a bounded number of drawing calls.                     *)
(***************************************************************************)
\* number of drawing calls in one behaviour
MaxDraws == 2

\* frame rates shown by the overlay
FpsValues == {60}

Draw ==
    /\ draws < MaxDraws
    /\ \/ \E fps \in FpsValues : draw_fps_overlay(fps)
       \/ draw_rect_angle(5, 2, 7, 2, 63488)

NextDraw == swap_layer1_buffers \/ VBlank \/ Draw

SpecDraw == Init /\ [][NextDraw]_vars

(***************************************************************************)
(* Specification of the blitter: drawing calls on the state init() leaves, *)
(* with arguments drawn from the sets below.                               *)
(***************************************************************************)
\* number of drawing calls in one behaviour
MaxBlits == 1

\* (origin, extent) pairs along the logical x axis: Coord x, u32 w
RectXW ==
    {<<0, 1>>, <<5, 2>>, <<317, 3>>, <<318, 3>>, <<319, 10>>, <<319, 65535>>,
     <<0, 320>>, <<320, 1>>, <<-1, 2>>, <<3, 65536>>}
\* (origin, extent) pairs along the logical y axis: Coord y, u32 h
RectYH ==
    {<<0, 1>>, <<7, 2>>, <<238, 2>>, <<239, 5>>, <<240, 1>>, <<239, 65535>>,
     <<-2147483647, 1>>, <<0, 2147483647>>}
\* 5-6-5 colours
Colours == {63488}

\* image origins, extents and transforms
ImgOrigins == {<<10, 20>>, <<238, 238>>, <<250, 5>>, <<-1, 0>>}
ImgExtents == {<<3, 2>>, <<65536, 1>>}
Transform(rotation, flip_h, flip_v) ==
    [rotation |-> rotation, flip_h |-> flip_h, flip_v |-> flip_v]
Transforms ==
    {Transform("None", FALSE, FALSE), Transform("None", TRUE, FALSE),
     Transform("Clockwise90", FALSE, FALSE), Transform("Clockwise90", FALSE, TRUE),
     Transform("CounterClockwise90", FALSE, FALSE),
     Transform("Rotate180", FALSE, FALSE)}
\* source pixels of a 3 x 2 image
ImgData == <<63488, 2016, 31, 65535, 0, 2047>>

\* (pen x, pen y, text) of write_string calls; "Hi", "A", "A B", "AB"
Texts ==
    {<<0, 0, <<72, 105>>>>, <<310, 0, <<65>>>>, <<300, 100, <<65, 32, 66>>>>,
     <<300, 200, <<65, 66>>>>, <<-5, 0, <<65>>>>, <<0, 65536, <<65>>>>,
     <<65530, 0, <<65>>>>, <<0, 230, <<65>>>>}

BlitRect ==
    /\ draws < MaxBlits
    /\ \E xw \in RectXW, yh \in RectYH, c \in Colours :
          draw_rect_angle(xw[1], xw[2], yh[1], yh[2], c)

BlitImage ==
    /\ draws < MaxBlits
    /\ \E o \in ImgOrigins, e \in ImgExtents, t \in Transforms :
          draw_image_transformed_rust(o[1], e[1], o[2], e[2], ImgData, t)

BlitText ==
    /\ draws < MaxBlits
    /\ \E t \in Texts : write_string(t[1], t[2], t[3], 65535, 31)

NextBlit == BlitRect \/ BlitImage \/ BlitText

\* the overlay reload feature has no part in the blitter
InitBlit == Init /\ ~build.l2_immediate

SpecBlit == InitBlit /\ [][NextBlit]_vars

(***************************************************************************)
(* Specification of the colour conversion: one drawing call of each        *)
(* routine on one device pixel (one glyph for the text), for each colour.  *)
(***************************************************************************)
\* 5-6-5 colours: every value of each channel alone, and mixed values
ColourValues ==
    {r * 2^11 : r \in 0..31} \cup {g * 2^5 : g \in 0..63} \cup (0..31)
        \cup {65535, 63519, 2047, 65504, 33808, 21845, 43690, 4660}

ColourRect ==
    /\ draws = 0
    /\ \E c \in ColourValues : draw_rect_angle(0, 1, 0, 1, c)

ColourImage ==
    /\ draws = 0
    /\ \E c \in ColourValues :
          draw_image_transformed_rust(0, 1, 0, 1, <<c>>,
                                      Transform("None", FALSE, FALSE))

\* the glyph and its background in the same colour
ColourText ==
    /\ draws = 0
    /\ \E c \in ColourValues : write_string(0, 0, <<65>>, c, c)

NextColour == ColourRect \/ ColourImage \/ ColourText

SpecColour == InitBlit /\ [][NextColour]_vars

(***************************************************************************)
(* Specification of the image transforms: one call of                      *)
(* draw_image_transformed_rust, well inside the logical space, for each    *)
(* image shape, source length and transform.                               *)
(***************************************************************************)
\* where the images are drawn
ImgAt == <<10, 20>>

\* <<w, h, number of source pixels>>: square and non-square images, with
\* all their pixels and with a source slice that is too short
ImgShapes ==
    {<<2, 2, 4>>, <<3, 3, 9>>, <<3, 2, 6>>, <<2, 3, 6>>,
     <<2, 2, 3>>, <<3, 2, 4>>, <<2, 3, 4>>}

\* ImageRotation and ImageFlip: every rotation with every flip combination
ImageRotations == {"None", "Clockwise90", "CounterClockwise90", "Rotate180"}
AllTransforms ==
    {Transform(r, fh, fv) : r \in ImageRotations, fh \in BOOLEAN, fv \in BOOLEAN}

\* n source pixels, all different after the conversion
ImgPixels(n) == [i \in 1..n |-> i]

DrawImage ==
    /\ draws = 0
    /\ \E sh \in ImgShapes, t \in AllTransforms :
          draw_image_transformed_rust(ImgAt[1], sh[1], ImgAt[2], sh[2],
                                      ImgPixels(sh[3]), t)

NextImage == DrawImage

SpecImage == InitBlit /\ [][NextImage]_vars

(***************************************************************************)
(* Specification of the text layout: one call of write_string for each     *)
(* pen position and text.                                                  *)
(***************************************************************************)
\* pen positions: around the last column a glyph fits in, and around the
\* last line a wrapped glyph fits in
PenXs == {0, 287, 288, 303, 304, 305, 310}
PenYs == {0, 187, 188, 189}

\* texts, as character codes: "A", "AB", " A", "  A", "A  B", a line feed,
\* DEL, and a character above the ASCII range
TextStrings ==
    {<<65>>, <<65, 66>>, <<32, 65>>, <<32, 32, 65>>, <<65, 32, 32, 66>>,
     <<10>>, <<127>>, <<233>>}

\* foreground and background of the text
TextColor == 65535
TextBgColor == 31

DrawText ==
    /\ draws = 0
    /\ \E x \in PenXs, y \in PenYs, t \in TextStrings :
          write_string(x, y, t, TextColor, TextBgColor)

NextText == DrawText

SpecText == InitBlit /\ [][NextText]_vars

(***************************************************************************)
(* Properties of the double buffer (C1 - C6).                              *)
(***************************************************************************)
\* C1: after swap_layer1_buffers, layer1_back_addr returns the buffer that
\* was front immediately before the swap, and that address differs from the
\* one layer1_back_addr returned immediately before the swap.
C1_BackIsPreviousFront ==
    last.op = "swap_layer1_buffers" =>
        /\ layer1_back_addr = last.front_before
        /\ layer1_back_addr # last.back_before

\* a swap made when the second buffer is front, with a reload by an
\* earlier call to display.rs init() in between
C1_Witness ==
    /\ last.op = "swap_layer1_buffers"
    /\ last.front_before = LAYER1_BASE_B
    /\ DISPLAY = "Some"

\* C2: two calls of swap_layer1_buffers in a row restore the original front
\* buffer and the original back buffer.
C2_SwapTwiceRestores ==
    (last.op = "swap_layer1_buffers" /\ last.prev.op = "swap_layer1_buffers") =>
        /\ L1_FRONT = last.prev.front_before
        /\ layer1_back_addr = last.prev.back_before

\* two swaps in a row, the first one made with the second buffer as front
C2_Witness ==
    /\ last.op = "swap_layer1_buffers"
    /\ last.prev.op = "swap_layer1_buffers"
    /\ last.prev.front_before = LAYER1_BASE_B

\* C3: in every interleaving of swap_layer1_buffers, drawing and vertical
\* blanks, the address layer1_back_addr returns is never the address latched
\* for scan-out, and every pixel draw_fps_overlay writes goes to a buffer
\* that is not being scanned out.
C3_BackNeverLatched ==
    /\ layer1_back_addr # active.l1_cfbar
    /\ last.op = "draw_fps_overlay" =>
           \A a \in last.touched : BufferOf(a) # last.latched_before

\* C4: no step other than a vertical blank changes the latched Layer-1
\* address, with either reload configuration of set_layer2_position.
C4_LatchOnlyAtVBlank ==
    last.op # "vblank" => active.l1_cfbar = last.latched_before

\* C5: every pixel write of the Display drawing routines targets the
\* Layer-1 buffer that is back at the time of the write.
C5_DrawsTargetBack ==
    last.op \in {"draw_rect_angle", "draw_image_transformed", "write_string"} =>
        \A a \in last.touched : BufferOf(a) = last.back_before

\* C6: once swap_layer1_buffers has been called, the next vertical blank
\* latches the buffer that was back at the time of that call, whatever is
\* called in between.
C6_SwapNotRetracted ==
    last.op = "vblank" => \A a \in last.requests : active.l1_cfbar = a

(***************************************************************************)
(* Properties of the overlay window (C7).                                  *)
(***************************************************************************)
\* C7: set_layer2_position(x, y) stages a window that starts at exactly
\* min(x, LCD_WIDTH - LAYER2_W), min(y, LCD_HEIGHT - LAYER2_H) relative to
\* the active area and spans LAYER2_W x LAYER2_H pixels; after any sequence
\* of calls the staged and the latched overlay window lie inside the active
\* area.
C7_OverlayClamped ==
    /\ last.op = "set_layer2_position" =>
           LET x == last.args[1]
               y == last.args[2]
               ex == IF x <= LCD_WIDTH - LAYER2_W THEN x ELSE LCD_WIDTH - LAYER2_W
               ey == IF y <= LCD_HEIGHT - LAYER2_H THEN y ELSE LCD_HEIGHT - LAYER2_H
           IN  /\ ltdc.l2_whpcr[1] = ltdc.bpcr[1] + 1 + ex
               /\ ltdc.l2_wvpcr[1] = ltdc.bpcr[2] + 1 + ey
    /\ \A r \in {ltdc, active} :
           /\ r.l2_whpcr[2] - r.l2_whpcr[1] + 1 = LAYER2_W
           /\ r.l2_wvpcr[2] - r.l2_wvpcr[1] + 1 = LAYER2_H
           /\ r.l2_whpcr[1] >= ltdc.bpcr[1] + 1
           /\ r.l2_whpcr[2] <= ltdc.awcr[1]
           /\ r.l2_wvpcr[1] >= ltdc.bpcr[2] + 1
           /\ r.l2_wvpcr[2] <= ltdc.awcr[2]

\* a request beyond the limit on both axes has been staged and latched
C7_Witness ==
    /\ last.op = "vblank"
    /\ last.prev.op = "set_layer2_position"
    /\ active.l2_whpcr[1] = HSYNC + HBP + LCD_WIDTH - LAYER2_W
    /\ active.l2_wvpcr[1] = VSYNC + VBP + LCD_HEIGHT - LAYER2_H

(***************************************************************************)
(* Properties of the blitter (C8 - C10).                                   *)
(***************************************************************************)
\* the address of logical pixel (gx, gy) in the buffer the Display routines
\* draw to: panel column gy of panel row GAME_WIDTH - 1 - gx
LogicalPixelAddr(gx, gy) ==
    LAYER1_BASE + WORD * ((GAME_WIDTH - 1 - gx) * LCD_WIDTH + gy)

\* the arguments <<x, w, y, h, color>> describe a rectangle with w >= 1 and
\* h >= 1 that lies entirely inside the logical space
RectInside(args) ==
    /\ args[1] >= 0 /\ args[3] >= 0
    /\ args[2] >= 1 /\ args[4] >= 1
    /\ args[1] + args[2] <= GAME_WIDTH
    /\ args[3] + args[4] <= GAME_HEIGHT

\* C8: for every rectangle with w >= 1, h >= 1 inside the logical space,
\* after fill_rect every logical pixel of the rectangle reads back as the
\* converted input colour and no pixel outside the rectangle has changed.
C8_FillRectExact ==
    [][(last'.op = "draw_rect_angle" /\ RectInside(last'.args)) =>
          LET x == last'.args[1]
              w == last'.args[2]
              y == last'.args[3]
              h == last'.args[4]
              inside == {LogicalPixelAddr(gx, gy) :
                           gx \in x..(x + w - 1), gy \in y..(y + h - 1)}
          IN  /\ last'.status = "ok"
              /\ \A a \in inside :
                     ReadWord(fb', a) = rgb565_to_argb8888(last'.args[5])
              /\ \A a \in ((DOMAIN fb) \cup (DOMAIN fb')) \ inside :
                     ReadWord(fb', a) = ReadWord(fb, a)]_vars

\* a fill that ends exactly in the far corner of the logical space
C8_Witness ==
    /\ last.op = "draw_rect_angle"
    /\ last.args[1] = GAME_WIDTH - 3 /\ last.args[2] = 3
    /\ last.args[3] = GAME_HEIGHT - 2 /\ last.args[4] = 2
    /\ Cardinality(last.touched) = 6

\* C9: fill_rect clips instead of failing: for w >= 1, h >= 1 and an origin
\* inside the logical space it writes exactly
\* min(w, GAME_WIDTH - x) * min(h, GAME_HEIGHT - y) pixels, and for an origin
\* with x >= GAME_WIDTH or y >= GAME_HEIGHT it returns with the buffer
\* unchanged.
C9_FillRectClips ==
    (/\ last.op = "draw_rect_angle"
     /\ \A i \in 1..4 : fits_u16(last.args[i])) =>
        LET x == last.args[1]
            w == last.args[2]
            y == last.args[3]
            h == last.args[4]
            cw == IF w <= GAME_WIDTH - x THEN w ELSE GAME_WIDTH - x
            ch == IF h <= GAME_HEIGHT - y THEN h ELSE GAME_HEIGHT - y
        IN  /\ (x < GAME_WIDTH /\ y < GAME_HEIGHT /\ w >= 1 /\ h >= 1) =>
                   /\ last.status = "ok"
                   /\ Cardinality(last.touched) = cw * ch
            /\ (x >= GAME_WIDTH \/ y >= GAME_HEIGHT) =>
                   /\ last.status = "return"
                   /\ last.touched = {}

\* C10: draw_rect_angle, draw_image_transformed and write_string return
\* normally for every Coord x, y and every u32 w, h: they never panic or
\* otherwise stop the caller.
C10_DrawingNeverHalts ==
    /\ last.op \in {"draw_rect_angle", "draw_image_transformed", "write_string"} =>
           last.status # "panic"
    /\ ~halted

(***************************************************************************)
(* Properties of the colour conversion (C11).                              *)
(***************************************************************************)
\* the 5-6-5 colour a call of SpecColour draws with
DrawnColour ==
    CASE last.op = "draw_rect_angle" -> last.args[5]
      [] last.op = "draw_image_transformed" -> last.args[5][1]
      [] last.op = "write_string" -> last.args[4]
      [] OTHER -> 0

\* C11: for every 5-6-5 colour, fill_rect, draw_image_to_framebuffer and
\* write_char write the same pixel: alpha 255, red r5*255/31, green
\* g6*255/63, blue b5*255/31 in integer division; 0xF800 gives (255,0,0),
\* 0x07E0 gives (0,255,0) and 0x001F gives (0,0,255).
C11_ColourConversion ==
    /\ last.op \in {"draw_rect_angle", "draw_image_transformed", "write_string"} =>
           LET c == DrawnColour
               r5 == c \div 2048
               g6 == (c \div 32) % 64
               b5 == c % 32
           IN  /\ last.status = "ok"
               /\ last.touched # {}
               /\ \A a \in last.touched :
                      ReadWord(fb, a) = <<255, (r5 * 255) \div 31,
                                         (g6 * 255) \div 63, (b5 * 255) \div 31>>
               /\ c = 63488 => \A a \in last.touched : ReadWord(fb, a) = <<255, 255, 0, 0>>
               /\ c = 2016 => \A a \in last.touched : ReadWord(fb, a) = <<255, 0, 255, 0>>
               /\ c = 31 => \A a \in last.touched : ReadWord(fb, a) = <<255, 0, 0, 255>>
    /\ \A c \in ColourValues :
           /\ image_rgb565_to_argb8888(c) = rgb565_to_argb8888(c)
           /\ char_rgb565_to_argb8888(c) = rgb565_to_argb8888(c)

\* a glyph drawn in a colour whose channels do not rescale by a shift
C11_Witness ==
    /\ last.op = "write_string"
    /\ DrawnColour = 33808
    /\ Cardinality(last.touched) = FONT_16X26_width * FONT_16X26_height
    /\ \A a \in last.touched : ReadWord(fb, a) = <<255, 131, 129, 131>>

(***************************************************************************)
(* Properties of the image transforms (C12 - C15).  The last call is       *)
(* draw_image_transformed(x, w, y, h, image_data, transform); destination  *)
(* (row, col) is logical pixel (x + col, y + row).                         *)
(***************************************************************************)
ImgX == last.args[1]
ImgW == last.args[2]
ImgY == last.args[3]
ImgH == last.args[4]
ImgSrc == last.args[5]
ImgT == last.args[6]

\* the word read back at destination (row, col) of the last image
DestWord(row, col) == ReadWord(fb, LogicalPixelAddr(ImgX + col, ImgY + row))

\* the last call drew an image with rotation r and no flip from a source of
\* w * h pixels
DrewRotated(r) ==
    /\ last.op = "draw_image_transformed"
    /\ ImgT = Transform(r, FALSE, FALSE)
    /\ Len(ImgSrc) = ImgW * ImgH

\* the mapping of rotation r at destination (row, col) of the last image
RotMap(r, row, col) == img_row_col(r, FALSE, FALSE, ImgW, ImgH, row, col)

\* C12: for any w x h image, the 180-degree mapping applied twice is the
\* identity: the composed index mapping sends every (row, col) to itself,
\* and the drawn image read back through the mapping is the source.
C12_Rotate180Twice ==
    DrewRotated("Rotate180") =>
        /\ last.status = "ok"
        /\ Cardinality(last.touched) = ImgW * ImgH
        /\ \A row \in 0..(ImgH - 1), col \in 0..(ImgW - 1) :
               LET m == RotMap("Rotate180", row, col)
                   mm == RotMap("Rotate180", m[1], m[2])
               IN  /\ m[1] \in 0..(ImgH - 1) /\ m[2] \in 0..(ImgW - 1)
                   /\ mm = <<row, col>>
                   /\ DestWord(m[1], m[2]) =
                          image_rgb565_to_argb8888(ImgSrc[row * ImgW + col + 1])

\* a non-square image drawn with the 180-degree rotation
C12_Witness ==
    /\ DrewRotated("Rotate180")
    /\ ImgW = 3 /\ ImgH = 2
    /\ DestWord(0, 0) = image_rgb565_to_argb8888(6)
    /\ DestWord(1, 2) = image_rgb565_to_argb8888(1)

\* C13: for any w x h image, square or not, the 90-degree clockwise mapping
\* followed by the 90-degree counter-clockwise mapping is the identity on
\* every (row, col), and the clockwise drawing uses every source pixel
\* exactly once (none skipped, none duplicated).
C13_Cw90ThenCcw90 ==
    DrewRotated("Clockwise90") =>
        LET cells == (0..(ImgH - 1)) \X (0..(ImgW - 1))
            idx(p) == LET m == RotMap("Clockwise90", p[1], p[2])
                      IN  m[1] * ImgW + m[2]
        IN  /\ last.status = "ok"
            /\ \A p \in cells :
                   LET m == RotMap("Clockwise90", p[1], p[2])
                   IN  RotMap("CounterClockwise90", m[1], m[2]) = p
            /\ Cardinality(last.touched) = ImgW * ImgH
            /\ {idx(p) : p \in cells} = 0..(ImgW * ImgH - 1)

\* C14: for every rotation and flip combination the drawn image is the
\* source rotated and then mirrored in destination space: destination
\* (row, col) holds what the rotation alone puts at the mirrored position.
C14_RotationThenFlip ==
    (/\ last.op = "draw_image_transformed"
     /\ ImgW = ImgH
     /\ Len(ImgSrc) = ImgW * ImgH) =>
        LET rotated == draw_image_to_framebuffer(
                           ImgX, ImgY, ImgW, ImgH, ImgSrc,
                           Transform(ImgT.rotation, FALSE, FALSE)).writes
            mrow(row) == IF ImgT.flip_v THEN ImgH - 1 - row ELSE row
            mcol(col) == IF ImgT.flip_h THEN ImgW - 1 - col ELSE col
        IN  /\ last.status = "ok"
            /\ \A row \in 0..(ImgH - 1), col \in 0..(ImgW - 1) :
                   DestWord(row, col) =
                       rotated[LogicalPixelAddr(ImgX + mcol(col), ImgY + mrow(row))]

\* C15: when the source slice is shorter than w * h, the call returns
\* normally, every destination pixel whose source index is at or past the
\* end of the slice is unchanged, and every other one is drawn.
C15_SourceUnderrun ==
    (/\ last.op = "draw_image_transformed"
     /\ Len(ImgSrc) < ImgW * ImgH) =>
        /\ last.status = "ok"
        /\ \A row \in 0..(ImgH - 1), col \in 0..(ImgW - 1) :
               LET m == img_row_col(ImgT.rotation, ImgT.flip_h, ImgT.flip_v,
                                    ImgW, ImgH, row, col)
                   img_idx == m[1] * ImgW + m[2]
                   a == LogicalPixelAddr(ImgX + col, ImgY + row)
               IN  IF img_idx >= 0 /\ img_idx < Len(ImgSrc)
                   THEN /\ a \in last.touched
                        /\ ReadWord(fb, a) = image_rgb565_to_argb8888(ImgSrc[img_idx + 1])
                   ELSE /\ a \notin last.touched
                        /\ ReadWord(fb, a) = InitWord(a)

(***************************************************************************)
(* Properties of the text layout (C16 - C19).  The last call is            *)
(* write_string(x, y, text, color, bgcolor).                               *)
(***************************************************************************)
\* the iterations the last write_string completed
TextSteps ==
    Display_write_string(last.args[1], last.args[2], last.args[3],
                         last.args[4], last.args[5]).steps

\* the frame buffer words of the glyph cell with its corner at (px, py)
\* that lie inside the logical space
GlyphCells(px, py) ==
    {LogicalPixelAddr(px + j, py + i) :
        <<i, j>> \in {c \in (0..(FONT_16X26_height - 1)) \X (0..(FONT_16X26_width - 1)) :
                        px + c[2] < GAME_WIDTH /\ py + c[1] < GAME_HEIGHT}}

\* C16: a glyph is moved to x = 0 of the next line if and only if
\* pen_x + glyph_width > GAME_WIDTH; a glyph that ends exactly at the right
\* edge of the logical space is drawn on the current line.
C16_WrapOnlyWhenExceeds ==
    last.op = "write_string" =>
        \A n \in DOMAIN TextSteps :
            LET s == TextSteps[n]
            IN  /\ s.wrapped <=> (s.x_in + FONT_16X26_width > GAME_WIDTH)
                /\ s.x_in + FONT_16X26_width = GAME_WIDTH =>
                       /\ s.drawn
                       /\ s.y_out = s.y_in
                       /\ GlyphCells(s.x_in, s.y_in) \subseteq last.touched

\* C17: after a wrap to line y the loop stops, drawing nothing more, if
\* y + glyph_height > GAME_HEIGHT, and goes on with the remaining text
\* otherwise: a wrapped line whose bottom lies exactly on the logical height
\* is still drawn.
C17_StopWhenExceedsHeight ==
    last.op = "write_string" =>
        /\ \A n \in DOMAIN TextSteps :
               LET s == TextSteps[n]
               IN  /\ s.wrapped =>
                          (s.stopped <=> (s.y_out + FONT_16X26_height > GAME_HEIGHT))
                   /\ s.stopped => (~s.drawn /\ n = Len(TextSteps))
                   /\ (s.wrapped /\ ~s.stopped /\ s.ch # 32) =>
                          GlyphCells(0, s.y_out) \subseteq last.touched
        /\ (last.status = "ok" /\ \A n \in DOMAIN TextSteps : ~TextSteps[n].stopped) =>
               Len(TextSteps) = Len(last.args[3])

\* C18: a space that is the first character after a wrap is not drawn and
\* leaves the pen at x = 0 of the new line; every other character the loop
\* gets to, a second consecutive space included, is drawn and advances the
\* pen by one glyph width.
C18_LeadingSpaceSkipped ==
    last.op = "write_string" =>
        /\ \A n \in DOMAIN TextSteps :
               LET s == TextSteps[n]
                   pen_x == IF s.wrapped THEN 0 ELSE s.x_in
                   pen_y == IF s.wrapped THEN (s.y_in + FONT_16X26_height) % U16
                            ELSE s.y_in
               IN  /\ s.ch = last.args[3][n]
                   /\ n > 1 => (s.x_in = TextSteps[n - 1].x_out
                                /\ s.y_in = TextSteps[n - 1].y_out)
                   /\ ~s.stopped =>
                          IF s.wrapped /\ s.ch = 32
                          THEN ~s.drawn /\ s.x_out = 0 /\ s.y_out = pen_y
                          ELSE /\ s.drawn
                               /\ s.x_out = (pen_x + FONT_16X26_width) % U16
                               /\ s.y_out = pen_y
                               /\ GlyphCells(pen_x, pen_y) \subseteq last.touched
        /\ last.touched =
               UNION {GlyphCells(TextSteps[n].x_out - FONT_16X26_width, TextSteps[n].y_out) :
                        n \in {i \in DOMAIN TextSteps : TextSteps[i].drawn}}

\* "  A" with the pen past the last column: the first space wraps and is
\* skipped, the second is drawn at x = 0 of the new line, the A follows it
C18_Witness ==
    /\ last.op = "write_string"
    /\ last.args[1] = 310 /\ last.args[2] = 0 /\ last.args[3] = <<32, 32, 65>>
    /\ Len(TextSteps) = 3
    /\ ~TextSteps[1].drawn /\ TextSteps[1].x_out = 0
    /\ TextSteps[2].drawn /\ TextSteps[2].x_in = 0 /\ TextSteps[2].x_out = FONT_16X26_width
    /\ last.touched = GlyphCells(0, FONT_16X26_height)
                           \cup GlyphCells(FONT_16X26_width, FONT_16X26_height)

\* C19: for every character byte outside 32..=126, bytes below 32
\* included, write_char draws a solid block, every in-bounds pixel of the
\* glyph cell in the foreground colour, and returns normally.
C19_FallbackBlock ==
    (/\ last.op = "write_string"
     /\ Len(last.args[3]) = 1
     /\ last.args[3][1] \notin 32..126
     /\ last.args[1] + FONT_16X26_width < GAME_WIDTH) =>
        /\ last.status = "ok"
        /\ last.touched = GlyphCells(last.args[1], last.args[2])
        /\ \A a \in last.touched :
               ReadWord(fb, a) = char_rgb565_to_argb8888(last.args[4])

(***************************************************************************)
(* Properties of the frame store layout (C20).                             *)
(***************************************************************************)
\* C20: the frame store holds, in order and without gaps, Primary-front at
\* LAYER1_BASE, Overlay at LAYER2_BASE and Primary-back at LAYER1_BASE_B,
\* each of width * height * bytes-per-pixel of its layer; the three ranges
\* are pairwise disjoint for either Layer-1 pixel format, and the layer
\* addresses the compositor programs are the starts of these ranges.
C20_FrameStoreLayout ==
    LET l1_bytes == LCD_WIDTH * LCD_HEIGHT * (IF build.l1_16bpp THEN 2 ELSE 4)
        l2_bytes == LAYER2_W * LAYER2_H * 4
        front_end == LAYER1_BASE + LAYER1_SIZE
        overlay_end == LAYER2_BASE + LAYER2_SIZE
        back_end == LAYER1_BASE_B + LAYER1_SIZE
    IN  /\ LAYER1_BASE = SDRAM_BASE
        /\ 2 * LAYER1_SIZE = l1_bytes
        /\ 2 * LAYER2_SIZE = l2_bytes
        /\ LAYER2_BASE = front_end
        /\ LAYER1_BASE_B = overlay_end
        /\ LAYER1_BASE < front_end
        /\ LAYER2_BASE < overlay_end
        /\ LAYER1_BASE_B < back_end
        /\ front_end <= LAYER2_BASE /\ overlay_end <= LAYER1_BASE_B
        /\ \A r \in {ltdc, active} :
               /\ r.l1_cfbar \in {LAYER1_BASE, LAYER1_BASE_B}
               /\ r.l2_cfbar = LAYER2_BASE
        /\ L1_FRONT \in {LAYER1_BASE, LAYER1_BASE_B}
        /\ layer1_back_addr \in {LAYER1_BASE, LAYER1_BASE_B} \ {L1_FRONT}

\* the 16-bit build scanning out the second Layer-1 buffer, which starts
\* 153600 + 16384 bytes into the frame store
C20_Witness ==
    /\ build.l1_16bpp
    /\ last.op = "vblank"
    /\ active.l1_cfbar = LAYER1_BASE_B
    /\ 2 * (LAYER1_BASE_B - SDRAM_BASE) = 153600 + 16384

(***************************************************************************)
(* Properties of the blitter's memory footprint (C21).                     *)
(***************************************************************************)
\* C21: for either Layer-1 pixel format, every byte written by the Display
\* drawing routines lies inside [LAYER1_BASE, LAYER1_BASE + LAYER1_SIZE):
\* no write reaches the Overlay buffer or the Primary-back buffer.
C21_WritesInsideLayer1 ==
    last.op \in {"draw_rect_angle", "draw_image_transformed", "write_string"} =>
        \A a \in last.touched :
            /\ a >= LAYER1_BASE
            /\ a + WORD <= LAYER1_BASE + LAYER1_SIZE
            /\ BufferOf(a) = LAYER1_BASE

(***************************************************************************)
(* Properties of the timing configuration (C22).                           *)
(***************************************************************************)
\* C22: on both axes the timing registers accumulate in the order sync,
\* back porch, active, front porch: sync end = sync - 1, back-porch end =
\* sync end + back porch, active end = back-porch end + active size, total
\* = active end + front porch, strictly increasing; the Layer-1 window is
\* the active area.
C22_TimingCumulative ==
    LET sync == <<HSYNC, VSYNC>>
        back_porch == <<HBP, VBP>>
        size == <<LCD_WIDTH, LCD_HEIGHT>>
        front_porch == <<HFP, VFP>>
    IN  /\ \A i \in {1, 2} :
               /\ ltdc.sscr[i] = sync[i] - 1
               /\ ltdc.bpcr[i] = ltdc.sscr[i] + back_porch[i]
               /\ ltdc.awcr[i] = ltdc.bpcr[i] + size[i]
               /\ ltdc.twcr[i] = ltdc.awcr[i] + front_porch[i]
               /\ ltdc.sscr[i] < ltdc.bpcr[i]
               /\ ltdc.bpcr[i] < ltdc.awcr[i]
               /\ ltdc.awcr[i] < ltdc.twcr[i]
        /\ \A r \in {ltdc, active} :
               /\ r.l1_whpcr = <<ltdc.bpcr[1] + 1, ltdc.awcr[1]>>
               /\ r.l1_wvpcr = <<ltdc.bpcr[2] + 1, ltdc.awcr[2]>>

\* the configuration written a second time, by the LcdDriver that
\* Display::new constructs, and latched
C22_Witness ==
    /\ last.op = "vblank"
    /\ last.prev.op = "display_init"
    /\ ltdc.twcr = <<279, 327>>
    /\ active.l1_whpcr = <<30, 269>>
    /\ active.l1_wvpcr = <<4, 323>>

(***************************************************************************)
(* Startup (main.rs init, lcd.rs LcdDriver::new, mpu6050.rs, i2c.rs).      *)
(* This specification follows the order of the statements of init(); the   *)
(* register values they leave are those of LcdDriver_new.                  *)
(***************************************************************************)
\* LcdDriver::new: its register writes, in program order
LcdDriver_new_enable_first ==
    <<"setup_ltdc_gpio", "ltdc.gcr.ltdcen",
      "ltdc.sscr", "ltdc.bpcr", "ltdc.awcr", "ltdc.twcr",
      "ltdc.layer1.whpcr", "ltdc.layer1.cfbar", "ltdc.srcr.vbr">>
LcdDriver_new_writes ==
    <<"setup_ltdc_gpio",
      "ltdc.sscr", "ltdc.bpcr", "ltdc.awcr", "ltdc.twcr",
      "ltdc.gcr.pcpol", "ltdc.gcr.hspol", "ltdc.gcr.vspol", "ltdc.gcr.depol",
      "ltdc.bccr",
      "ltdc.layer1.whpcr", "ltdc.layer1.wvpcr", "ltdc.layer1.pfcr",
      "ltdc.layer1.cfbar", "ltdc.layer1.cfblr", "ltdc.layer1.cfblnr",
      "ltdc.layer1.cacr", "ltdc.layer1.bfcr", "ltdc.layer1.cr.len",
      "ltdc.layer2.whpcr", "ltdc.layer2.wvpcr", "ltdc.layer2.pfcr",
      "ltdc.layer2.cfbar", "ltdc.layer2.cfblr", "ltdc.layer2.cfblnr",
      "ltdc.layer2.cacr", "ltdc.layer2.bfcr", "ltdc.layer2.cr.len",
      "ltdc.srcr.vbr", "ltdc.gcr.ltdcen">>

\* draw::layer1_checkerboard: the two fills, in program order
layer1_checkerboard ==
    <<"fill_checkerboard_to(LAYER1_BASE)",
      "fill_checkerboard_to(layer1_back_addr)">>

\* main.rs init(): the statements before the MPU6050 retry loop
init_statements ==
    <<"clock::setup", "clock::setup_system_clocks_168mhz",
      "clock::setup_pllsai_for_ltdc", "sdram::init">>
    \o layer1_checkerboard
    \o <<"draw::clear_layer2">>
    \o LcdDriver_new_writes
    \o <<"lcd_spi::init", "i2c::init_i2c1", "clock::delay_ms(50)">>

\* main.rs init(): let mut mpu_init_attempts = 3
mpu_init_attempts == 3

\* mpu6050.rs: the identity the sensor reports, and the three registers
\* init writes after it (PWR_MGMT_1, GYRO_CONFIG, ACCEL_CONFIG)
MPU6050_ID == 104
mpu6050_init_writes == 3

\* what the device does with a transfer addressed to it: acknowledge it,
\* or stay silent (no device answers on the bus)
BusAnswers == {"acks", "silent"}
\* the values a device that answers may return for WHO_AM_I
WhoAmI == {MPU6050_ID, 0}

\* i2c1_read_reg: `while !i2c.sr1.read().addr().bit_is_set() {}` is left
\* only when the ADDR flag is set, which takes an acknowledging device
wait_for_flag(bus) == bus = "acks"

\* i2c1_write_reg: each wait counts I2C_TIMEOUT down and returns Err(())
\* at zero; Ok(()) when the device acknowledges
i2c1_write_reg(bus) == IF bus = "acks" THEN "Ok" ELSE "Err"

Executed(labels) == [boot EXCEPT !.executed = boot.executed \o labels]

StartupFrame ==
    UNCHANGED <<build, L1_FRONT, ltdc, active, DISPLAY, fb, halted, draws,
                last, tap>>

\* init(): the next statement before the retry loop
Statement ==
    /\ boot.pc = "init"
    /\ LET k == Len(boot.executed) + 1
       IN  boot' = [Executed(<<init_statements[k]>>) EXCEPT
                       !.pc = IF k = Len(init_statements)
                              THEN "mpu6050::init" ELSE "init",
                       !.mpu_init_attempts = mpu_init_attempts]
    /\ StartupFrame

\* mpu6050::init starts: i2c1_read_reg(MPU6050_ADDR, WHO_AM_I) puts the
\* address on the bus
mpu6050_init ==
    /\ boot.pc = "mpu6050::init"
    /\ \E bus \in BusAnswers :
          boot' = [Executed(<<"mpu6050::init">>) EXCEPT
                      !.pc = "i2c1_read_reg", !.bus = bus, !.reg = 0]
    /\ StartupFrame

\* i2c1_read_reg leaves its wait and returns the identity read
i2c1_read_reg ==
    /\ boot.pc = "i2c1_read_reg"
    /\ wait_for_flag(boot.bus)
    /\ \E id \in WhoAmI :
          boot' = [boot EXCEPT
                      !.pc = IF id = MPU6050_ID THEN "i2c1_write_reg"
                             ELSE "failed",
                      !.bus = "idle"]
    /\ StartupFrame

\* mpu6050::init: the next i2c1_write_reg, `?` returning its error
mpu6050_init_write ==
    /\ boot.pc = "i2c1_write_reg"
    /\ \E bus \in BusAnswers :
          LET result == i2c1_write_reg(bus)
              reg == boot.reg + 1
          IN  boot' = [boot EXCEPT
                          !.reg = reg,
                          !.pc = IF result = "Err" THEN "failed"
                                 ELSE IF reg = mpu6050_init_writes
                                 THEN "set_layer2_alpha"
                                 ELSE "i2c1_write_reg",
                          !.mpu = IF result = "Ok" /\ reg = mpu6050_init_writes
                                  THEN "ok" ELSE boot.mpu]
    /\ StartupFrame

\* init(): an attempt failed; give up at zero, else reset the bus and retry
retry ==
    /\ boot.pc = "failed"
    /\ LET left == boot.mpu_init_attempts - 1
       IN  boot' = IF left = 0
                   THEN [boot EXCEPT !.mpu_init_attempts = left,
                                     !.pc = "set_layer2_alpha",
                                     !.mpu = "gave_up"]
                   ELSE [Executed(<<"i2c::reset_i2c1", "clock::delay_ms(100)">>)
                            EXCEPT !.mpu_init_attempts = left,
                                   !.pc = "mpu6050::init"]
    /\ StartupFrame

\* init(): lcd_driver.set_layer2_alpha(0xFF), then init returns
init_returns ==
    /\ boot.pc = "set_layer2_alpha"
    /\ boot' = [Executed(<<"set_layer2_alpha">>) EXCEPT !.pc = "done"]
    /\ ltdc' = [ltdc EXCEPT !.l2_cacr = 255, !.srcr_vbr = TRUE]
    /\ UNCHANGED <<build, L1_FRONT, active, DISPLAY, fb, halted, draws,
                   last, tap>>

\* reset: init() has executed nothing yet
InitStartup ==
    /\ build \in [l2_immediate : BOOLEAN, overflow_checks : BOOLEAN,
                   l1_16bpp : BOOLEAN]
    /\ boot = [pc |-> "init", executed |-> <<>>,
               mpu_init_attempts |-> mpu_init_attempts,
               bus |-> "idle", mpu |-> "unknown", reg |-> 0]
    /\ tap = NoReading
    /\ L1_FRONT = LAYER1_BASE
    /\ ltdc = LcdDriver_new
    /\ active = Reload(LcdDriver_new)
    /\ DISPLAY = "None"
    /\ fb = << >>
    /\ halted = FALSE
    /\ draws = 0
    /\ last = [op |-> "reset", args |-> <<>>]

NextStartup ==
    \/ Statement
    \/ mpu6050_init
    \/ i2c1_read_reg
    \/ mpu6050_init_write
    \/ retry
    \/ init_returns

\* the processor keeps executing: a statement that can run does run
SpecStartup == InitStartup /\ [][NextStartup]_vars /\ WF_vars(NextStartup)

\* the statements executed before the k-th
Before(k) == {boot.executed[j] : j \in 1 .. (k - 1)}

\* C23: the LTDC enable bit is set strictly after both layers' window,
\* format, address, pitch and blending registers are written and a shadow
\* reload is requested, after sdram::init and after the fill of both
\* Layer-1 buffers.
C23_EnableAfterConfiguration ==
    \A k \in 1 .. Len(boot.executed) :
        boot.executed[k] = "ltdc.gcr.ltdcen" =>
            {"ltdc.layer1.whpcr", "ltdc.layer1.wvpcr", "ltdc.layer1.pfcr",
             "ltdc.layer1.cfbar", "ltdc.layer1.cfblr", "ltdc.layer1.cacr",
             "ltdc.layer1.bfcr",
             "ltdc.layer2.whpcr", "ltdc.layer2.wvpcr", "ltdc.layer2.pfcr",
             "ltdc.layer2.cfbar", "ltdc.layer2.cfblr", "ltdc.layer2.cacr",
             "ltdc.layer2.bfcr",
             "ltdc.srcr.vbr", "sdram::init",
             "fill_checkerboard_to(LAYER1_BASE)",
             "fill_checkerboard_to(layer1_back_addr)"} \subseteq Before(k)

\* init() has returned with the LTDC enabled
C23_Witness ==
    /\ boot.pc = "done"
    /\ \E k \in 1 .. Len(boot.executed) : boot.executed[k] = "ltdc.gcr.ltdcen"

\* C29: startup completes whatever the sensor does: init() returns, after
\* at most three attempts of mpu6050::init.
C29_StartupCompletes == <>(boot.pc = "done")

\* C29, safety part: no more than three attempts are made, with a bus
\* reset between any two of them
C29_AtMostThreeAttempts ==
    LET tries == {k \in 1 .. Len(boot.executed) :
                      boot.executed[k] = "mpu6050::init"}
    IN  /\ Cardinality(tries) <= 3
        /\ \A k \in tries : k > 1 /\ boot.executed[k - 1] # "clock::delay_ms(50)"
               => boot.executed[k - 2] = "i2c::reset_i2c1"

(***************************************************************************)
(* Input device (mpu6050.rs read_accel_data, input_device.rs).             *)
(***************************************************************************)
\* read_accel_data: ((buffer[i] as i32) << 8) | (buffer[i + 1] as i32)
be_pair(hi, lo) == hi * 256 + lo

\* read_accel_data on the six bytes i2c1_read_bytes stored
read_accel_data(buffer) ==
    [accel_x |-> be_pair(buffer[1], buffer[2]),
     accel_y |-> be_pair(buffer[3], buffer[4]),
     accel_z |-> be_pair(buffer[5], buffer[6])]

\* accel_to_game_coords: (mapped_y, is_tilted)
accel_to_game_coords(accel_data, y_min, y_max, tilt_threshold) ==
    LET abs == IF accel_data.accel_y < 0 THEN -accel_data.accel_y
               ELSE accel_data.accel_y
        normalized_y ==
            IF accel_data.accel_y > 0
            THEN y_min + Min((accel_data.accel_y * (y_max - y_min)) \div 32767,
                             y_max - y_min)
            ELSE y_max - Min(((-accel_data.accel_y) * (y_max - y_min)) \div 32767,
                             y_max - y_min)
        mapped_y == IF normalized_y < y_min THEN y_min
                    ELSE IF normalized_y > y_max THEN y_max
                    ELSE normalized_y
    IN  <<mapped_y, abs > tilt_threshold>>

\* bytes the sensor may send for one axis: high byte, low byte
AxisBytes ==
    {<<0, 0>>, <<0, 1>>, <<31, 64>>, <<127, 255>>, <<128, 0>>, <<224, 192>>,
     <<255, 255>>}
\* the coordinate ranges is_tap is called with
YRanges == {<<0, 239>>, <<20, 200>>}

\* Mpu6050InputDevice::is_tap(y_min, y_max), the sensor sending `buffer`
is_tap(buffer, y_min, y_max) ==
    /\ tap.op = "none"
    /\ LET accel_data == read_accel_data(buffer)
           r == accel_to_game_coords(accel_data, y_min, y_max, 8000)
       IN  tap' = [op |-> "is_tap", buffer |-> buffer, accel_data |-> accel_data,
                   y_min |-> y_min, y_max |-> y_max,
                   mapped_y |-> r[1], is_tilted |-> r[2]]
    /\ UNCHANGED <<build, L1_FRONT, ltdc, active, DISPLAY, fb, halted, draws,
                   last, boot>>

NextInput ==
    \E y \in AxisBytes, xz \in {<<0, 0>>, <<192, 0>>}, yr \in YRanges :
        is_tap(xz \o y \o xz, yr[1], yr[2])

SpecInput == Init /\ [][NextInput]_vars

\* C30: read_accel_data returns each axis as the signed 16-bit value of its
\* big-endian byte pair, in -32768 .. 32767, so that a tilt whose byte
\* pair is negative reaches accel_to_game_coords as a negative accel_y and
\* is mapped downwards from y_max.
C30_SignedAxes ==
    tap.op = "is_tap" =>
        LET signed(hi, lo) == IF hi >= 128 THEN hi * 256 + lo - 65536
                              ELSE hi * 256 + lo
            b == tap.buffer
            y == signed(b[3], b[4])
        IN  /\ tap.accel_data.accel_x = signed(b[1], b[2])
            /\ tap.accel_data.accel_y = y
            /\ tap.accel_data.accel_z = signed(b[5], b[6])
            /\ tap.accel_data.accel_y \in -32768 .. 32767
            /\ y < 0 => tap.mapped_y =
                   tap.y_max - Min(((-y) * (tap.y_max - tap.y_min)) \div 32767,
                                   tap.y_max - tap.y_min)

(***************************************************************************)
(* Properties of image clipping (C24, C25).                                *)
(***************************************************************************)
\* C24: with the identity transform, every destination (x + col, y + row)
\* that draw_image_transformed writes holds source pixel row * w + col,
\* w being the declared width of the image, also when the image is
\* clipped at the right or bottom edge.
C24_ClippedStride ==
    /\ last.op = "draw_image_transformed"
    /\ last.status = "ok"
    /\ ImgT = Transform("None", FALSE, FALSE)
    /\ Len(ImgSrc) = ImgW * ImgH
    => \A row \in 0 .. (ImgH - 1), col \in 0 .. (ImgW - 1) :
           /\ ImgX + col < GAME_WIDTH
           /\ ImgY + row < GAME_HEIGHT
           /\ LogicalPixelAddr(ImgX + col, ImgY + row) \in last.touched
           => DestWord(row, col) =
                  image_rgb565_to_argb8888(ImgSrc[row * ImgW + col + 1])

\* C25: draw_image_transformed clips against the logical space: for an
\* origin with x < GAME_WIDTH and y < GAME_HEIGHT it draws every image
\* pixel that lies inside GAME_WIDTH x GAME_HEIGHT, and it returns without
\* drawing only when x >= GAME_WIDTH or y >= GAME_HEIGHT (stated for the
\* identity transform, where image pixel (row, col) belongs at
\* (x + col, y + row)).
C25_ClipsAgainstLogicalSpace ==
    /\ last.op = "draw_image_transformed"
    /\ \A i \in 1 .. 4 : fits_u16(last.args[i])
    /\ ImgT = Transform("None", FALSE, FALSE)
    /\ last.status # "panic"
    => /\ last.status = "return" <=> (ImgX >= GAME_WIDTH \/ ImgY >= GAME_HEIGHT)
       /\ ImgX < GAME_WIDTH /\ ImgY < GAME_HEIGHT =>
              \A row \in 0 .. (ImgH - 1), col \in 0 .. (ImgW - 1) :
                  ImgX + col < GAME_WIDTH /\ ImgY + row < GAME_HEIGHT
                  => LogicalPixelAddr(ImgX + col, ImgY + row) \in last.touched

(***************************************************************************)
(* Specification of the extreme fills: draw_rect_angle with a zero extent,  *)
(* and set_background_color.                                               *)
(***************************************************************************)
\* origins inside the logical space, and extents with a zero side
EmptyOrigins ==
    {<<0, 0>>, <<0, 7>>, <<1, 0>>, <<5, 7>>, <<319, 239>>, <<0, 239>>,
     <<319, 0>>, <<160, 120>>}
EmptyExtents == {<<0, 1>>, <<0, 2>>, <<3, 0>>}

BlitEmptyRect ==
    /\ draws = 0
    /\ \E o \in EmptyOrigins, e \in EmptyExtents, c \in Colours :
          draw_rect_angle(o[1], e[1], o[2], e[2], c)

\* Display::set_background_color(bg_color), called through the
\* set_background_color wrapper
set_background_color(bg_color) ==
    DrawingCall("set_background_color", <<bg_color>>,
                fill_rect(0, as_u16(GAME_WIDTH), 0, as_u16(GAME_HEIGHT), bg_color))

\* background colours
BgColours == {63488}

FillScreen ==
    /\ draws = 0
    /\ \E c \in BgColours : set_background_color(c)

NextEmpty == BlitEmptyRect \/ FillScreen

SpecEmpty == InitBlit /\ [][NextEmpty]_vars

\* C26: fill_rect with w = 0 or h = 0 writes no pixel and returns normally,
\* for every origin inside the logical space, x = 0 and y = 0 included.
C26_EmptyRectWritesNothing ==
    /\ last.op = "draw_rect_angle"
    /\ last.args[2] = 0 \/ last.args[4] = 0
    /\ last.args[1] \in 0 .. (GAME_WIDTH - 1)
    /\ last.args[3] \in 0 .. (GAME_HEIGHT - 1)
    => /\ last.status \in {"ok", "return"}
       /\ last.touched = {}

\* C27: after set_background_color(c) every one of the LCD_WIDTH *
\* LCD_HEIGHT elements of the Layer-1 buffer holds the converted colour,
\* and the remap lcd_x = game_y, lcd_y = GAME_WIDTH - 1 - game_x sends the
\* logical space one-to-one onto the indices 0 .. LCD_WIDTH * LCD_HEIGHT - 1.
C27_BackgroundFillsEveryPixel ==
    last.op = "set_background_color" =>
        /\ last.status = "ok"
        /\ Cardinality(last.touched) = LCD_WIDTH * LCD_HEIGHT
        /\ \A a \in last.touched :
               /\ a >= LAYER1_BASE
               /\ a < ElemAddr(LAYER1_BASE, LCD_WIDTH * LCD_HEIGHT)
               /\ (a - LAYER1_BASE) % WORD = 0
        /\ fb = [a \in last.touched |-> rgb565_to_argb8888(last.args[1])]
        /\ \A gx \in 0 .. (GAME_WIDTH - 1), gy \in 0 .. (GAME_HEIGHT - 1) :
               /\ fb_index(gx, gy) \in 0 .. (LCD_WIDTH * LCD_HEIGHT - 1)
               /\ game_xy_of(LAYER1_BASE, ElemAddr(LAYER1_BASE, fb_index(gx, gy)))
                      = <<gx, gy>>

\* the whole screen has been filled with a colour
C27_Witness ==
    /\ last.op = "set_background_color"
    /\ last.status = "ok"
    /\ Cardinality(last.touched) = GAME_WIDTH * GAME_HEIGHT
    /\ ReadWord(fb, LogicalPixelAddr(319, 239)) = <<255, 255, 0, 0>>

(***************************************************************************)
(* Property of the front-buffer tracker across constructions (C28).        *)
(***************************************************************************)
\* C28: after any sequence of LcdDriver::new (also through Display::new)
\* and swap_layer1_buffers, L1_FRONT equals the address most recently
\* written to the Layer-1 frame-buffer address register.
C28_TrackerMatchesRegister == L1_FRONT = ltdc.l1_cfbar

====
